---- MODULE Spec2Model ----
(***************************************************************************)
(* The queue message processing engine of jedi-ops: the queue(batch)       *)
(* handlers of the three worker templates (todo-processor,                 *)
(* dispatch-processor, queue-consumer), run against a platform that        *)
(* delivers a batch, lets each handler complete or raise, and redelivers   *)
(* the messages that were not acknowledged.                                *)
(*                                                                         *)
(* One step of the model is one run-to-completion segment of the async     *)
(* function: the only suspension point of queue(batch) is the await of     *)
(* the processor call.                                                     *)
(***************************************************************************)
EXTENDS Integers, Sequences, FiniteSets, TLC

\* ---------------------------------------------------------------- bounds
\* Longest batch delivered at the start.
MaxBatch == 2
\* Largest retry_count a producer puts on a message body.
MaxRetryIn == 5
\* Largest value of Date.now(); the clock starts at 1.
MaxClock == 2
\* Where the counts kept over the life of a message (attempts, retries) stop
\* growing.
MaxCount == 7

\* ------------------------------------------------------------ JS values
\* `undefined` for a numeric field (retry_count, timestamp).
Undefined == -1

\* x || 0 for a number or undefined: undefined and 0 are falsy.
OrZero(x) == IF x = Undefined \/ x = 0 THEN 0 ELSE x

Min(a, b) == IF a < b THEN a ELSE b

\* The three worker modules; one of them runs an invocation.
Workers == {"todo", "dispatch", "consumer"}

\* The own keys of the registry objects.
todoProcessors == {"counter", "task"}
messageProcessors == {"email", "notification", "data_sync"}

\* Properties every object literal inherits from Object.prototype. Called as
\* processor(body, env), i.e. with `this` undefined in module (strict) code:
\* toString returns "[object Undefined]", hasOwnProperty raises a TypeError.
InheritedReturning == {"toString"}
InheritedThrowing == {"hasOwnProperty"}

\* The type tags a producer can put on a body.
TypeTags == {"task", "email", "hasOwnProperty", "toString"}

\* registry[type]: a registered processor, an inherited function, or undefined.
Lookup(registry, type) ==
  IF type \in registry THEN "processor"
  ELSE IF type \in InheritedReturning THEN "inherited_returns"
  ELSE IF type \in InheritedThrowing THEN "inherited_throws"
  ELSE "undefined"

\* The class with a `retryable` flag that each module declares.
FlagClass(w) == IF w = "dispatch" THEN "ServiceError" ELSE "ProcessingError"

\* A raised value: the class it was constructed from ("null" for a raised
\* null/undefined, "Error" for any object outside the module's two classes),
\* its `name` property and its `retryable` property.
ValidationError == [cls |-> "ValidationError", name |-> "ValidationError", retryable |-> TRUE]
FlagError(w, r) == [cls |-> FlagClass(w), name |-> FlagClass(w), retryable |-> r]
PlainError == [cls |-> "Error", name |-> "Error", retryable |-> TRUE]
PlainErrorNotRetryable == [cls |-> "Error", name |-> "Error", retryable |-> FALSE]
ForeignValidationError == [cls |-> "Error", name |-> "ValidationError", retryable |-> TRUE]
TypeError == [cls |-> "Error", name |-> "TypeError", retryable |-> TRUE]
NullValue == [cls |-> "null", name |-> "", retryable |-> TRUE]
NoError == [cls |-> "none", name |-> "", retryable |-> TRUE]

\* What a processor of worker w can raise.
Raisable(w) ==
  {ValidationError, FlagError(w, TRUE), FlagError(w, FALSE), PlainError,
   PlainErrorNotRetryable, ForeignValidationError, NullValue}

\* error instanceof C
InstanceOf(e, c) == e.cls = c

\* ------------------------------------------------------------- messages
\* The transport-level message id of the k-th delivered message, a string of
\* nine characters (characters are numbers here).
TransportId(k) == [c \in 1..9 |-> IF c = 9 THEN k ELSE 0]

\* s.substring(0, n)
Substring(s, n) == SubSeq(s, 1, Min(n, Len(s)))

\* body.id: undefined, a string the producer gave (its characters in pre), or
\* the template string `${tag}-${pre}-${t}` the engine builds.
NoId == [kind |-> "undefined", pre |-> <<>>, t |-> 0]
EmptyId == [kind |-> "given", pre |-> <<>>, t |-> 0]
GivenId == [kind |-> "given", pre |-> <<7>>, t |-> 0]
StampedId(tag, tid, t) == [kind |-> tag, pre |-> Substring(tid, 8), t |-> t]

\* !body.id : undefined and the empty string are falsy.
FalsyId(id) == id.kind = "undefined" \/ (id.kind = "given" /\ id.pre = <<>>)

\* The retry_count values a producer can put on a body.
RetryIn == {Undefined} \cup (0..MaxRetryIn)

Body(type, id, ts, rc) ==
  [type |-> type, id |-> id, timestamp |-> ts, retry_count |-> rc]

\* No body recorded.
NoBody == Body("", NoId, Undefined, Undefined)

\* body.data of a task message: undefined, or an object whose title is
\* undefined or a string (its characters in chars).
NoTitle == [kind |-> "undefined", chars |-> <<>>]
EmptyTitle == [kind |-> "string", chars |-> <<>>]
GivenTitle == [kind |-> "string", chars |-> <<1>>]
NoData == [kind |-> "undefined", title |-> NoTitle]
TaskData(title) == [kind |-> "object", title |-> title]

\* !data.title : undefined and the empty string are falsy.
FalsyTitle(title) == title.kind = "undefined" \/ title.chars = <<>>

\* A body together with its data.
WithData(b, data) ==
  [type |-> b.type, id |-> b.id, timestamp |-> b.timestamp,
   retry_count |-> b.retry_count, data |-> data]

\* processTask: the log line reads message.data.title (a TypeError when data
\* is undefined), a falsy title raises ValidationError, otherwise the
\* function returns after its timer.
processTask(message) ==
  IF message.data.kind = "undefined" THEN TypeError
  ELSE IF FalsyTitle(message.data.title) THEN ValidationError
  ELSE NoError

\* One entry of batch.messages with the calls made on it in this invocation
\* (acks, retries, invoked) and, where the history is kept, the body it was
\* delivered with (incoming) and its life so far: the retry_count of its
\* first delivery, the processor calls and retry() calls over all deliveries,
\* whether every delivery so far ended in a failure classified retryable
\* (steady), the console lines written for it in this invocation (logged) and
\* the delaySeconds option of each retry() call made on it (delays).
Message(k, body) ==
  [id |-> TransportId(k), body |-> body, acks |-> 0, retries |-> 0, invoked |-> 0,
   incoming |-> NoBody, first |-> Undefined, attempts |-> 0, retried |-> 0,
   steady |-> TRUE, logged |-> {}, delays |-> <<>>]

\* The message as delivered, where the history is kept.
Delivered(m) == [m EXCEPT !.incoming = m.body]

\* -------------------------------------------------------- normalization
\* NormalizeTodo stamping the id on every delivery.
NormalizeTodoRestamps(message, t) ==
  LET b == message.body IN
  [b EXCEPT
     !.id = StampedId("todo", message.id, t),
     !.timestamp = IF @ = Undefined \/ @ = 0 THEN t ELSE @,
     !.retry_count = OrZero(@) + 1]

\* todo-processor: id and timestamp if falsy, then retry_count.
NormalizeTodo(message, t) ==
  LET b == message.body IN
  [b EXCEPT
     !.id = IF FalsyId(@) THEN StampedId("todo", message.id, t) ELSE @,
     !.timestamp = IF @ = Undefined \/ @ = 0 THEN t ELSE @,
     !.retry_count = OrZero(@) + 1]

\* NormalizeConsumer building the body anew and leaving the data out.
NormalizeConsumerDropsData(message, t) ==
  LET b == message.body IN
  [b EXCEPT
     !.retry_count = IF @ # Undefined THEN @ + 1 ELSE 1,
     !.id = IF FalsyId(@) THEN StampedId("msg", message.id, t) ELSE @,
     !.data = NoData]

\* queue-consumer: retry_count, then id if falsy; timestamp is not touched.
NormalizeConsumer(message, t) ==
  LET b == message.body IN
  [b EXCEPT
     !.retry_count = IF @ # Undefined THEN @ + 1 ELSE 1,
     !.id = IF FalsyId(@) THEN StampedId("msg", message.id, t) ELSE @]

\* dispatch-processor writes nothing to the body.
Normalize(w, message, t) ==
  CASE w = "todo" -> NormalizeTodo(message, t)
    [] w = "consumer" -> NormalizeConsumer(message, t)
    [] w = "dispatch" -> message.body

\* What the call in the try block finds to call: the registry entry of the
\* type, or processMessage itself in the queue-consumer.
Resolve(w, type) ==
  CASE w = "todo" -> Lookup(todoProcessors, type)
    [] w = "dispatch" -> Lookup(messageProcessors, type)
    [] w = "consumer" -> "processor"

\* ---------------------------------------------------------- catch block
\* The if/else chain of each catch block on the raised value e: "validation",
\* "non_retryable", "retryable" (the final else, where the retry budget is
\* consulted), or "throws" when evaluating the chain itself raises.
\* ClassifyTodo without its ValidationError branch.
ClassifyTodoNoValidation(e) ==
  IF InstanceOf(e, "ProcessingError") /\ ~e.retryable THEN "non_retryable"
  ELSE "retryable"

ClassifyTodo(e) ==
  IF InstanceOf(e, "ValidationError") THEN "validation"
  ELSE IF InstanceOf(e, "ProcessingError") /\ ~e.retryable THEN "non_retryable"
  ELSE "retryable"

\* error.name on null/undefined raises a TypeError inside the catch block.
ClassifyDispatch(e) ==
  IF e.cls = "null" THEN "throws"
  ELSE IF e.name = "ValidationError" THEN "validation"
  ELSE IF InstanceOf(e, "ServiceError") /\ ~e.retryable THEN "non_retryable"
  ELSE "retryable"

\* ClassifyConsumer with the negation of the retryable flag dropped.
ClassifyConsumerFlagInverted(e) ==
  IF InstanceOf(e, "ValidationError") THEN "validation"
  ELSE IF InstanceOf(e, "ProcessingError") /\ e.retryable THEN "non_retryable"
  ELSE "retryable"

ClassifyConsumer(e) ==
  IF InstanceOf(e, "ValidationError") THEN "validation"
  ELSE IF InstanceOf(e, "ProcessingError") /\ ~e.retryable THEN "non_retryable"
  ELSE "retryable"

Classify(w, e) ==
  CASE w = "todo" -> ClassifyTodo(e)
    [] w = "dispatch" -> ClassifyDispatch(e)
    [] w = "consumer" -> ClassifyConsumer(e)

\* The decision of each catch block: "ack", "retry", or "throw" when the
\* block raises. The body is the one the try block left.
\* CatchTodo with the ack of the exhausted-budget branch left out.
CatchTodoDropsExhausted(body, e) ==
  LET class == ClassifyTodo(e) IN
  IF class = "validation" THEN "ack"
  ELSE IF class = "non_retryable" THEN "ack"
  ELSE LET retryCount == OrZero(body.retry_count) IN
       IF retryCount >= 5 THEN "none" ELSE "retry"

CatchTodo(body, e) ==
  LET class == ClassifyTodo(e) IN
  IF class = "validation" THEN "ack"
  ELSE IF class = "non_retryable" THEN "ack"
  ELSE LET retryCount == OrZero(body.retry_count) IN
       IF retryCount >= 5 THEN "ack" ELSE "retry"

\* CatchDispatch going on with the loop, no call made, where reading the name
\* of the raised value fails.
CatchDispatchSwallows(body, e) ==
  LET retryCount == OrZero(body.retry_count) + 1
      class == ClassifyDispatch(e) IN
  IF class = "throws" THEN "none"
  ELSE IF class = "validation" THEN "ack"
  ELSE IF class = "non_retryable" THEN "ack"
  ELSE IF retryCount > 5 THEN "ack" ELSE "retry"

\* CatchDispatch giving up two attempts early.
CatchDispatchGivesUpEarly(body, e) ==
  LET retryCount == OrZero(body.retry_count) + 1
      class == ClassifyDispatch(e) IN
  IF class = "throws" THEN "throw"
  ELSE IF class = "validation" THEN "ack"
  ELSE IF class = "non_retryable" THEN "ack"
  ELSE IF retryCount > 3 THEN "ack" ELSE "retry"

CatchDispatch(body, e) ==
  LET retryCount == OrZero(body.retry_count) + 1
      class == ClassifyDispatch(e) IN
  IF class = "throws" THEN "throw"
  ELSE IF class = "validation" THEN "ack"
  ELSE IF class = "non_retryable" THEN "ack"
  ELSE IF retryCount > 5 THEN "ack" ELSE "retry"

\* CatchConsumer with the budget test of the dispatch-processor.
CatchConsumerStrictlyAbove(body, e) ==
  LET class == ClassifyConsumer(e) IN
  IF class = "validation" THEN "ack"
  ELSE IF class = "non_retryable" THEN "ack"
  ELSE LET retryCount == OrZero(body.retry_count) IN
       IF retryCount > 5 THEN "ack" ELSE "retry"

CatchConsumer(body, e) ==
  LET class == ClassifyConsumer(e) IN
  IF class = "validation" THEN "ack"
  ELSE IF class = "non_retryable" THEN "ack"
  ELSE LET retryCount == OrZero(body.retry_count) IN
       IF retryCount >= 5 THEN "ack" ELSE "retry"

Catch(w, body, e) ==
  CASE w = "todo" -> CatchTodo(body, e)
    [] w = "dispatch" -> CatchDispatch(body, e)
    [] w = "consumer" -> CatchConsumer(body, e)

\* ---------------------------------------------------------------- state
VARIABLES
  worker,   \* the module whose queue(batch) runs
  batch,    \* batch.messages
  i,        \* position of the for-of loop in batch.messages
  pc,       \* "loop", "await", "done" (returned), "crashed" (rejected)
  callee,   \* what the pending await waits for: "processor" or "value"
  now,      \* Date.now()
  last,     \* the message the loop handled last: position, retry_count it
            \* came in with, value its processor raised
  history,  \* whether the history of each message is kept
  other,    \* the locals of a second queue(batch) invocation of the same
            \* module that is suspended (or has not run yet) while this one
            \* runs
  api,      \* the main worker: its environment, the last request it
            \* answered, the status of the response, the messages that request
            \* sent to TODO_QUEUE and the number of its Redis publishes
  toml,     \* wrangler.toml of the project: its content, the sanitized name
            \* of the last `add queue-consumer` run and of the run before it,
            \* the number of runs
  loop      \* the for loop of processCounter: the message it runs for, its
            \* variable i, the number of executions of its body, whether it
            \* is at its test or in its body

vars == <<worker, batch, i, pc, callee, now, last, history, other, api, toml, loop>>

\* What the queue(batch) steps of the running invocation do not touch.
outside == <<other, api, toml, loop>>

NoLast == [idx |-> 0, rcIn |-> Undefined, raised |-> NoError]

\* The locals of one invocation: batch.messages, the loop position, where the
\* async function stands.
Frame(msgs, k, at, waits, l) ==
  [batch |-> msgs, i |-> k, pc |-> at, callee |-> waits, last |-> l]

\* No second invocation.
NoFrame == Frame(<<>>, 1, "none", "none", NoLast)

\* A string or undefined (a header, an environment variable, a field of a
\* JSON body); its characters in chars.
NoString == [kind |-> "undefined", chars |-> <<>>]
String(chars) == [kind |-> "string", chars |-> chars]

\* !s : undefined and the empty string are falsy.
FalsyString(s) == s.kind = "undefined" \/ s.chars = <<>>

\* The main worker has served no request.
NoApi ==
  [env |-> [AUTH_KEY |-> NoString, redis |-> FALSE],
   request |-> [method |-> "", path |-> "", key |-> NoString, payload |-> [kind |-> "none"]],
   status |-> 0, sent |-> <<>>, published |-> 0]

\* processCounter has not come to its loop.
NoLoop == [of |-> 0, i |-> 0, n |-> 0, at |-> "test"]

\* A wrangler.toml that names no queue; the command line tool has not run.
NoToml == [content |-> <<>>, name |-> <<>>, previous |-> <<>>, runs |-> 0]

\* Nothing but one queue(batch) invocation is going on.
Idle == other = NoFrame /\ api = NoApi /\ toml = NoToml /\ loop = NoLoop

\* The delaySeconds option of the retry() call on a message with this body:
\* every worker calls message.retry() with no argument.
delaySeconds(w, body) == Undefined

\* message.ack() / message.retry() on the k-th message.
Call(msgs, k, d) ==
  CASE d = "ack" -> [msgs EXCEPT ![k].acks = @ + 1]
    [] d = "retry" -> [msgs EXCEPT ![k].retries = @ + 1,
                                   ![k].retried = IF history THEN Min(@ + 1, MaxCount) ELSE @,
                                   ![k].delays =
                                      IF history /\ Len(@) < MaxCount
                                      THEN Append(@, delaySeconds(worker, msgs[k].body))
                                      ELSE @]
    [] OTHER -> msgs

\* What a console line written for a message carries of its outcome: the
\* message id, the elapsed processing time, the final action.
Carries(line) ==
  CASE line = "processing" -> {"id"}
    [] line = "unknown" -> {}
    [] line = "success" -> {"id", "elapsed", "action"}
    [] line = "error" -> {"id", "elapsed"}
    [] line = "validation" -> {"action"}
    [] line = "non_retryable" -> {"action"}
    [] line = "retryable" -> {}
    [] line = "exceeded" -> {"id", "action"}
    [] line = "retrying" -> {"id", "action"}

\* The lines the catch block of worker w writes for the raised value e.
CatchLines(w, body, e) ==
  LET class == Classify(w, e) IN
  {"error"} \cup
    CASE class = "throws" -> {}
      [] class = "validation" -> {"validation"}
      [] class = "non_retryable" -> {"non_retryable"}
      [] OTHER -> (IF w = "dispatch" THEN {"retryable"} ELSE {})
                    \cup (IF Catch(w, body, e) = "ack" THEN {"exceeded"} ELSE {"retrying"})

\* console.log/warn/error of these lines for the k-th message.
Log(msgs, k, lines) ==
  [msgs EXCEPT ![k].logged = IF history THEN @ \cup lines ELSE @]

\* The processor call on the k-th message.
Invoke(msgs, k) ==
  [msgs EXCEPT ![k].invoked = @ + 1,
               ![k].attempts = IF history THEN Min(@ + 1, MaxCount) ELSE @]

\* The life of the k-th message goes on with an outcome that is, or is not, a
\* failure classified retryable.
Outcome(msgs, k, retryable) ==
  [msgs EXCEPT ![k].steady = IF history THEN @ /\ retryable ELSE @]

\* Where the loop stands after decision d on message i.
NextPc(d) ==
  IF d = "throw" THEN "crashed" ELSE IF i = Len(batch) THEN "done" ELSE "loop"
NextI(d) == IF d = "throw" THEN i ELSE i + 1

\* The retry_count of a body at its first delivery: absent, zero, or a count
\* near the ceiling.
ProducedRetry == {Undefined, 0} \cup ((MaxRetryIn - 2)..MaxRetryIn)

\* Bodies as producers enqueue them.
ProducedBodies ==
  {Body(ty, NoId, Undefined, rc) : ty \in TypeTags, rc \in ProducedRetry}

Batches(bodies) ==
  UNION {[1..n -> bodies] : n \in 1..MaxBatch}

InitWith(bodies) ==
  /\ worker \in Workers
  /\ \E bs \in Batches(bodies) : batch = [k \in DOMAIN bs |-> Message(k, bs[k])]
  /\ history = FALSE
  /\ i = 1
  /\ pc = "loop"
  /\ callee = "none"
  /\ now = 1
  /\ last = NoLast
  /\ Idle

Init == InitWith(ProducedBodies)

\* Time passes while the function is suspended.
Elapse == \E d \in {0, 1} : now' = Min(now + d, MaxClock)

\* The loop body up to the await: normalization, lookup, the call.
Begin ==
  /\ pc = "loop"
  /\ LET message == batch[i]
         body == Normalize(worker, message, now)
         processor == Resolve(worker, body.type)
         entered == [idx |-> i, rcIn |-> message.body.retry_count, raised |-> NoError]
         stamped == Log([batch EXCEPT ![i].body = body], i, {"processing"})
     IN
     CASE processor = "undefined" ->
            /\ batch' = Outcome(Call(Log(stamped, i, {"unknown"}), i, "ack"), i, FALSE)
            /\ pc' = NextPc("ack")
            /\ i' = NextI("ack")
            /\ callee' = "none"
            /\ last' = entered
       [] processor = "inherited_throws" ->
            LET d == Catch(worker, body, TypeError) IN
            /\ batch' = Outcome(Call(Log(Invoke(stamped, i), i,
                                          CatchLines(worker, body, TypeError)), i, d), i,
                                 Classify(worker, TypeError) = "retryable")
            /\ pc' = NextPc(d)
            /\ i' = NextI(d)
            /\ callee' = "none"
            /\ last' = [entered EXCEPT !.raised = TypeError]
       [] OTHER ->
            /\ batch' = Invoke(stamped, i)
            /\ pc' = "await"
            /\ i' = i
            /\ callee' = IF processor = "processor" THEN "processor" ELSE "value"
            /\ last' = entered
  /\ UNCHANGED <<worker, now, history>>
  /\ UNCHANGED outside

\* The awaited call completes: success log, message.ack().
HandlerReturns ==
  /\ pc = "await"
  /\ batch' = Outcome(Call(Log(batch, i, {"success"}), i, "ack"), i, FALSE)
  /\ pc' = NextPc("ack")
  /\ i' = NextI("ack")
  /\ callee' = "none"
  /\ Elapse
  /\ UNCHANGED <<worker, last, history>>
  /\ UNCHANGED outside

\* The awaited processor raises e: the catch block decides.
HandlerRaises(e) ==
  /\ pc = "await"
  /\ callee = "processor"
  /\ LET d == Catch(worker, batch[i].body, e) IN
     /\ batch' = Outcome(Call(Log(batch, i, CatchLines(worker, batch[i].body, e)), i, d), i,
                          Classify(worker, e) = "retryable")
     /\ pc' = NextPc(d)
     /\ i' = NextI(d)
  /\ callee' = "none"
  /\ last' = [last EXCEPT !.raised = e]
  /\ Elapse
  /\ UNCHANGED <<worker, history>>
  /\ UNCHANGED outside

\* The platform delivers again, in a new batch, every message of the ended
\* invocation that was not acknowledged, with the body as the engine left it.
Redeliver ==
  /\ pc \in {"done", "crashed"}
  /\ \E k \in DOMAIN batch : batch[k].acks = 0
  /\ LET pending == SelectSeq(batch, LAMBDA m : m.acks = 0) IN
     batch' = [k \in DOMAIN pending |->
                 [pending[k] EXCEPT !.acks = 0, !.retries = 0, !.invoked = 0, !.logged = {},
                                    !.incoming = IF history THEN pending[k].body ELSE @]]
  /\ i' = 1
  /\ pc' = "loop"
  /\ callee' = "none"
  /\ last' = NoLast
  /\ Elapse
  /\ UNCHANGED <<worker, history>>
  /\ UNCHANGED outside

Next ==
  \/ Begin
  \/ HandlerReturns
  \/ \E e \in Raisable(worker) : HandlerRaises(e)
  \/ Redeliver

Spec == Init /\ [][Next]_vars

\* Bodies with every kind of id and timestamp a producer can give.
GivenTimestamp == 5
AnyBodies ==
  {Body(ty, id, ts, rc) : ty \in TypeTags, id \in {NoId, EmptyId, GivenId},
                          ts \in {Undefined, 0, GivenTimestamp}, rc \in RetryIn}

\* A first delivery with the history kept.
FirstDelivery(k, body) ==
  [Delivered(Message(k, body)) EXCEPT !.first = body.retry_count]

\* One message alone in its batch, followed over its whole life.
InitLife ==
  /\ worker \in Workers
  /\ \E body \in AnyBodies : batch = <<FirstDelivery(1, body)>>
  /\ i = 1
  /\ pc = "loop"
  /\ callee = "none"
  /\ now = 1
  /\ last = NoLast
  /\ history = TRUE
  /\ Idle

LifeSpec == InitLife /\ [][Next]_vars

\* Batches with the history of every message kept.
InitBatch ==
  /\ worker \in Workers
  /\ \E bs \in Batches(ProducedBodies) :
        batch = [k \in DOMAIN bs |-> FirstDelivery(k, bs[k])]
  /\ i = 1
  /\ pc = "loop"
  /\ callee = "none"
  /\ now = 1
  /\ last = NoLast
  /\ history = TRUE
  /\ Idle

BatchSpec == InitBatch /\ [][Next]_vars

\* ------------------------------------------------- two invocations at once
\* What each invocation keeps in its own scope: batch is a parameter, the
\* message of the for-of loop, processor and retryCount are block-scoped
\* constants; nothing of it is declared at module level.
LocalsMessageShared == {"pc", "callee", "last"}

Locals == {"batch", "i", "pc", "callee", "last"}

\* The value of a name when the event loop resumes the suspended invocation.
Resumed(name, running, suspended) ==
  IF name \in Locals THEN suspended ELSE running

\* The event loop goes on with the other invocation. An invocation can only
\* be left at its await, once it has ended, or before its first step.
Switch ==
  /\ other.pc # "none"
  /\ pc # "loop" \/ last = NoLast
  /\ other' = Frame(batch, i, pc, callee, last)
  /\ batch' = Resumed("batch", batch, other.batch)
  /\ i' = Resumed("i", i, other.i)
  /\ pc' = Resumed("pc", pc, other.pc)
  /\ callee' = Resumed("callee", callee, other.callee)
  /\ last' = Resumed("last", last, other.last)
  /\ UNCHANGED <<worker, now, history, api, toml, loop>>

\* The bodies two invocations at once are run on: a type of either registry
\* on a first delivery, and a delivery that is not the first.
ConcurrentBodies ==
  {Body("task", NoId, Undefined, Undefined), Body("email", NoId, Undefined, Undefined),
   Body("task", NoId, Undefined, MaxRetryIn - 1)}

\* Two invocations of one module on disjoint batches, the second a batch of
\* one message; neither has started.
InitConcurrent ==
  /\ worker \in Workers
  /\ \E bs \in Batches(ConcurrentBodies) : \E c \in ConcurrentBodies :
        /\ batch = [k \in DOMAIN bs |-> Delivered(Message(k, bs[k]))]
        /\ other = Frame(<<Delivered(Message(Len(bs) + 1, c))>>, 1, "loop", "none", NoLast)
  /\ i = 1
  /\ pc = "loop"
  /\ callee = "none"
  /\ now = 1
  /\ last = NoLast
  /\ history = FALSE
  /\ api = NoApi
  /\ toml = NoToml
  /\ loop = NoLoop

\* The steps of the two invocations, each followed to its end.
ConcurrentNext ==
  \/ Begin
  \/ HandlerReturns
  \/ \E e \in Raisable(worker) : HandlerRaises(e)
  \/ Switch

ConcurrentSpec == InitConcurrent /\ [][ConcurrentNext]_vars

\* ------------------------------------------------------ bodies with data
\* task and email bodies with every shape of data the task processor tells
\* apart.
PayloadBodies ==
  {WithData(Body(ty, NoId, Undefined, rc), d) :
     ty \in {"task", "email"}, rc \in RetryIn,
     d \in {NoData, TaskData(NoTitle), TaskData(EmptyTitle), TaskData(GivenTitle)}}

\* One message with data alone in its batch, followed over its whole life.
InitPayload ==
  /\ worker \in Workers
  /\ \E body \in PayloadBodies : batch = <<FirstDelivery(1, body)>>
  /\ i = 1
  /\ pc = "loop"
  /\ callee = "none"
  /\ now = 1
  /\ last = NoLast
  /\ history = TRUE
  /\ Idle

\* The pending call ends with e (NoError: it returns): what processTask does
\* on a task body in the todo-processor, anything in the other processors.
Produces(e) ==
  (pc = "await" /\ worker = "todo" /\ batch[i].body.type = "task") =>
    e = processTask(batch[i].body)

PayloadNext ==
  \/ Begin
  \/ Produces(NoError) /\ HandlerReturns
  \/ \E e \in Raisable(worker) \cup {TypeError} : Produces(e) /\ HandlerRaises(e)
  \/ Redeliver

PayloadSpec == InitPayload /\ [][PayloadNext]_vars

\* ----------------------------------------------------------- main worker
\* The largest end - start that createCounter accepts.
MaxRange == 10000

\* The JSON body of a request, by the endpoint it is meant for; "malformed"
\* is a body c.req.json() rejects.
NoPayload == [kind |-> "none"]
Malformed == [kind |-> "malformed"]
CounterPayload(start, end, step) ==
  [kind |-> "counter", start |-> start, end |-> end, step |-> step]
TaskPayload(title) == [kind |-> "task", title |-> title]
ReminderPayload(message, user_id, scheduled_for) ==
  [kind |-> "reminder", message |-> message, user_id |-> user_id,
   scheduled_for |-> scheduled_for]
PublishPayload(channel, message) ==
  [kind |-> "publish", channel |-> channel, message |-> message]

\* The data of counter and reminder messages.
CounterData(start, end, step) ==
  [kind |-> "object", start |-> start, end |-> end, step |-> step]
ReminderData(message, user_id, scheduled_for) ==
  [kind |-> "object", message |-> message, user_id |-> user_id,
   scheduled_for |-> scheduled_for]

\* A date string Date.parse accepts, and one it does not.
IsoDate == String(<<2>>)
NotADate == String(<<3>>)

\* isNaN(Date.parse(s))
Unparseable(s) == s # IsoDate

\* What a create function gives: a message, or it throws.
Thrown == [ok |-> FALSE, message |-> NoBody]
Made(message) == [ok |-> TRUE, message |-> message]

\* createCounter (start and end are numbers here).
createCounter(start, end, step, t) ==
  IF end - start > MaxRange THEN Thrown
  ELSE Made(WithData(Body("counter", NoId, t, Undefined), CounterData(start, end, step)))

createTask(title, t) ==
  IF FalsyString(title) THEN Thrown
  ELSE Made(WithData(Body("task", NoId, t, Undefined), TaskData(title)))

createReminder(message, user_id, scheduled_for, t) ==
  IF FalsyString(message) \/ FalsyString(user_id) THEN Thrown
  ELSE IF ~FalsyString(scheduled_for) /\ Unparseable(scheduled_for) THEN Thrown
  ELSE Made(WithData(Body("reminder", NoId, t, Undefined),
                     ReminderData(message, user_id, scheduled_for)))

\* A response, with what the request did to the queue and to Redis.
Response(status, sent, published) ==
  [status |-> status, sent |-> sent, published |-> published]

\* The queue send of the three todo endpoints sits in the inner try block with
\* the create call: a throw of either is answered 400.
Enqueue(made, sendOk) ==
  IF made.ok /\ sendOk THEN Response(200, <<made.message>>, 0)
  ELSE Response(400, <<>>, 0)

\* api.post('/api/todo/counter')
PostCounter(data, sendOk, t) ==
  IF data.kind = "malformed" THEN Response(500, <<>>, 0)
  ELSE IF data.start = Undefined \/ data.end = Undefined THEN Response(400, <<>>, 0)
  ELSE Enqueue(createCounter(data.start, data.end,
                             IF OrZero(data.step) = 0 THEN 1 ELSE data.step, t), sendOk)

\* api.post('/api/todo/task')
PostTask(data, sendOk, t) ==
  IF data.kind = "malformed" THEN Response(500, <<>>, 0)
  ELSE Enqueue(createTask(data.title, t), sendOk)

\* api.post('/api/todo/reminder')
PostReminder(data, sendOk, t) ==
  IF data.kind = "malformed" THEN Response(500, <<>>, 0)
  ELSE Enqueue(createReminder(data.message, data.user_id, data.scheduled_for, t), sendOk)

\* api.post('/publish')
PostPublish(data, env, publishOk) ==
  IF data.kind = "malformed" THEN Response(500, <<>>, 0)
  ELSE IF FalsyString(data.channel) \/ FalsyString(data.message) THEN Response(400, <<>>, 0)
  ELSE IF ~env.redis THEN Response(503, <<>>, 0)
  ELSE IF publishOk THEN Response(200, <<>>, 1)
  ELSE Response(500, <<>>, 0)

\* authMiddleware letting every request with a non-empty key through.
RejectsMissingOnly(authKey, AUTH_KEY) == FalsyString(authKey)

\* authMiddleware: !authKey || authKey !== c.env.AUTH_KEY
Rejects(authKey, AUTH_KEY) == FalsyString(authKey) \/ authKey # AUTH_KEY

\* The handlers of the app in the order of their registration.
Route(method, path, handler) == [method |-> method, path |-> path, handler |-> handler]
Routes ==
  << Route("ALL", "*", "logger"), Route("ALL", "*", "timing"), Route("ALL", "*", "cors"),
     Route("GET", "/health", "health"), Route("GET", "/", "root"),
     Route("GET", "/docs", "docs"),
     Route("ALL", "/*", "authMiddleware"),
     Route("POST", "/api/todo/counter", "counter"),
     Route("POST", "/api/todo/task", "task"),
     Route("POST", "/api/todo/reminder", "reminder"),
     Route("POST", "/publish", "publish"),
     Route("POST", "/api/todo/counter", "counter"),
     Route("POST", "/api/todo/task", "task") >>

Matches(route, request) ==
  /\ route.method \in {"ALL", request.method}
  /\ route.path \in {"*", "/*", request.path}

RECURSIVE Compose(_, _, _, _, _)
\* The matching handlers from the n-th on, each run when the one before it
\* calls next(); app.notFound when none answers.
Compose(env, request, ok, t, n) ==
  IF n > Len(Routes) THEN Response(404, <<>>, 0)
  ELSE IF ~Matches(Routes[n], request) THEN Compose(env, request, ok, t, n + 1)
  ELSE
    LET handler == Routes[n].handler IN
    CASE handler \in {"logger", "timing", "cors"} -> Compose(env, request, ok, t, n + 1)
      [] handler \in {"health", "root", "docs"} -> Response(200, <<>>, 0)
      [] handler = "authMiddleware" ->
           IF Rejects(request.key, env.AUTH_KEY) THEN Response(401, <<>>, 0)
           ELSE Compose(env, request, ok, t, n + 1)
      [] handler = "counter" -> PostCounter(request.payload, ok, t)
      [] handler = "task" -> PostTask(request.payload, ok, t)
      [] handler = "reminder" -> PostReminder(request.payload, ok, t)
      [] handler = "publish" -> PostPublish(request.payload, env, ok)

\* The requests a client can make.
Paths ==
  {"/health", "/docs", "/", "/api/todo/counter", "/api/todo/task", "/api/todo/reminder",
   "/publish", "/unknown"}
Keys == {NoString, String(<<>>), String(<<1>>), String(<<2>>)}
Strings == {NoString, String(<<1>>)}
Payloads(path) ==
  CASE path = "/api/todo/counter" ->
         {Malformed} \cup {CounterPayload(s, e, st) :
                             s \in {Undefined, 0}, e \in {Undefined, 0, MaxRange + 1},
                             st \in {Undefined, 2}}
    [] path = "/api/todo/task" ->
         {Malformed} \cup {TaskPayload(ti) : ti \in {NoTitle, EmptyTitle, GivenTitle}}
    [] path = "/api/todo/reminder" ->
         {Malformed} \cup {ReminderPayload(m, u, d) :
                             m \in Strings, u \in Strings, d \in {NoString, IsoDate, NotADate}}
    [] path = "/publish" ->
         {Malformed} \cup {PublishPayload(c, m) : c \in Strings, m \in Strings}
    [] OTHER -> {NoPayload}
Request(method, path, key, payload) ==
  [method |-> method, path |-> path, key |-> key, payload |-> payload]
Requests ==
  {Request("GET", p, k, NoPayload) : p \in Paths, k \in Keys}
    \cup UNION {{Request("POST", p, k, pl) : k \in Keys, pl \in Payloads(p)} : p \in Paths}

\* app.fetch: the request is answered; ok tells whether the queue send or the
\* Redis publish it may come to succeeds.
Fetch(request, ok) ==
  /\ LET r == Compose(api.env, request, ok, now, 1) IN
     api' = [api EXCEPT !.request = request, !.status = r.status, !.sent = r.sent,
                        !.published = r.published]
  /\ Elapse
  /\ UNCHANGED <<worker, batch, i, pc, callee, last, history, other, toml, loop>>

\* No queue(batch) invocation is going on.
NoBatch ==
  /\ worker = "todo"
  /\ batch = <<>>
  /\ i = 1
  /\ pc = "done"
  /\ callee = "none"
  /\ now = 1
  /\ last = NoLast
  /\ history = FALSE
  /\ other = NoFrame

\* The main worker deployed with or without AUTH_KEY and Redis; no queue
\* consumer runs.
InitApi ==
  /\ \E key \in {NoString, String(<<>>), String(<<1>>)} : \E redis \in BOOLEAN :
        api = [NoApi EXCEPT !.env = [AUTH_KEY |-> key, redis |-> redis]]
  /\ toml = NoToml
  /\ loop = NoLoop
  /\ NoBatch

ApiNext == \E request \in Requests : \E ok \in BOOLEAN : Fetch(request, ok)

ApiSpec == InitApi /\ [][ApiNext]_vars

\* The messages the endpoints send to TODO_QUEUE at clock value t.
Enqueued(t) ==
  UNION {{r.sent[k] : k \in DOMAIN r.sent} :
           r \in {Compose([AUTH_KEY |-> request.key, redis |-> FALSE], request, TRUE, t, 1) :
                    request \in Requests}}

\* The todo-processor on batches of messages the main worker has sent.
InitProducer ==
  /\ worker = "todo"
  /\ \E bs \in Batches(Enqueued(1)) :
        batch = [k \in DOMAIN bs |-> FirstDelivery(k, bs[k])]
  /\ i = 1
  /\ pc = "loop"
  /\ callee = "none"
  /\ now = 1
  /\ last = NoLast
  /\ history = TRUE
  /\ Idle

ProducerSpec == InitProducer /\ [][PayloadNext]_vars

\* ------------------------------------------------------- ack() that raises
\* The awaited call completes, the success line is written and message.ack()
\* raises an Error: the statement is inside the try block, so the catch block
\* decides on the message with that Error.
AckRaises ==
  /\ pc = "await"
  /\ LET e == PlainError
         body == batch[i].body
         d == Catch(worker, body, e)
         tried == Call(Log(batch, i, {"success"}), i, "ack")
     IN
     /\ batch' = Outcome(Call(Log(tried, i, CatchLines(worker, body, e)), i, d), i,
                          Classify(worker, e) = "retryable")
     /\ pc' = NextPc(d)
     /\ i' = NextI(d)
  /\ callee' = "none"
  /\ Elapse
  /\ UNCHANGED <<worker, last, history>>
  /\ UNCHANGED outside

AckNext == Next \/ AckRaises

\* One message followed over its whole life on a platform whose ack() can
\* raise.
AckSpec == InitLife /\ [][AckNext]_vars

\* ---------------------------------------------------------- processCounter
\* The magnitude beyond which adding the step to a number gives the number
\* back (in the program: 2^53, where the doubles of JS absorb the addend).
MaxMagnitude == 6

\* Counter messages as a producer can put them on the todo queue.
CounterBodies ==
  {WithData(Body("counter", NoId, 1, Undefined), d) :
     d \in {NoData} \cup
           {CounterData(s, e, st) :
              s \in {Undefined, 0},
              e \in {Undefined, 2, MaxRange - 1, MaxRange, MaxRange + 1},
              st \in {Undefined, 0, 1, 2, -2}}}

\* processCounter up to its loop: the log line reads message.data.start (a
\* TypeError when data is undefined), then the two validations.
processCounter(message) ==
  IF message.data.kind = "undefined" THEN TypeError
  ELSE IF message.data.start = Undefined \/ message.data.end = Undefined THEN ValidationError
  ELSE IF message.data.end - message.data.start > MaxRange THEN ValidationError
  ELSE NoError

\* const step = message.data.step || 1
StepOf(message) == IF OrZero(message.data.step) = 0 THEN 1 ELSE message.data.step

\* x += step
Plus(x, step) == IF x + step < -MaxMagnitude THEN x ELSE x + step

\* The processor called for message i is processCounter.
Counting == pc = "await" /\ worker = "todo" /\ batch[i].body.type = "counter"

\* for (let i = start; ...
CounterEnters ==
  /\ Counting
  /\ loop.of # i
  /\ processCounter(batch[i].body) = NoError
  /\ loop' = [of |-> i, i |-> batch[i].body.data.start, n |-> 0, at |-> "test"]
  /\ UNCHANGED <<worker, batch, i, pc, callee, now, last, history, other, api, toml>>

\* i <= end holds: the body is entered.
CounterTests ==
  /\ Counting
  /\ loop.of = i
  /\ loop.at = "test"
  /\ loop.i <= batch[i].body.data.end
  /\ loop' = [loop EXCEPT !.at = "body"]
  /\ UNCHANGED <<worker, batch, i, pc, callee, now, last, history, other, api, toml>>

\* The body, then i += step.
CounterIterates ==
  /\ Counting
  /\ loop.of = i
  /\ loop.at = "body"
  /\ loop' = [loop EXCEPT !.i = Plus(@, StepOf(batch[i].body)),
                          !.n = Min(@ + 1, MaxRange + 1),
                          !.at = "test"]
  /\ UNCHANGED <<worker, batch, i, pc, callee, now, last, history, other, api, toml>>

\* i > end: the loop is left, processCounter returns.
CounterReturns ==
  /\ Counting
  /\ loop.of = i
  /\ loop.at = "test"
  /\ loop.i > batch[i].body.data.end
  /\ HandlerReturns

\* processCounter raises before its loop.
CounterRaises ==
  /\ Counting
  /\ loop.of # i
  /\ processCounter(batch[i].body) # NoError
  /\ HandlerRaises(processCounter(batch[i].body))

\* The todo-processor with one counter message.
InitCounter ==
  /\ worker = "todo"
  /\ \E body \in CounterBodies : batch = <<Delivered(Message(1, body))>>
  /\ i = 1
  /\ pc = "loop"
  /\ callee = "none"
  /\ now = 1
  /\ last = NoLast
  /\ history = FALSE
  /\ Idle

CounterNext ==
  \/ Begin
  \/ CounterEnters
  \/ CounterTests
  \/ CounterIterates
  \/ CounterReturns
  \/ CounterRaises

CounterSpec == InitCounter /\ [][CounterNext]_vars

\* The JS engine goes on executing the function it is in.
CounterLiveSpec == CounterSpec /\ WF_vars(CounterNext)

\* ------------------------------------------------------ command line tool
\* The longest --name and the largest number of runs of the tool followed.
MaxName == 2
MaxRuns == 2

\* The characters of a name: letters of both cases, one character outside
\* [a-zA-Z0-9-_], the dash.
NameChars == {"a", "b", "A", ".", "-"}
Names == UNION {[1..n -> NameChars] : n \in 1..MaxName}

\* The class [a-zA-Z0-9-_] of the sanitizing replace.
Allowed == {"a", "b", "A", "B", "-", "_"}

toLowerCase(c) == CASE c = "A" -> "a" [] c = "B" -> "b" [] OTHER -> c
toUpperCase(c) == CASE c = "a" -> "A" [] c = "b" -> "B" [] OTHER -> c

\* name.replace(/[^a-zA-Z0-9-_]/g, '-').toLowerCase()
sanitized(name) ==
  [k \in DOMAIN name |-> toLowerCase(IF name[k] \in Allowed THEN name[k] ELSE "-")]

UpperCased(name) == [k \in DOMAIN name |-> toUpperCase(name[k])]

\* includes finding nothing.
IncludesNothing(text, needle) == FALSE

\* text.includes(needle): needle occurs somewhere in text.
Includes(text, needle) ==
  \E k \in 0..(Len(text) - Len(needle)) : SubSeq(text, k + 1, k + Len(needle)) = needle

\* The pieces of the appended text around the name; a piece is one element
\* of the content, a character of the name is one element.
ConsumersOpen == "[[queues.consumers]]\nqueue = \""
ConsumerSettings ==
  "-queue\"\nmax_batch_size = 10\nmax_batch_timeout = 5\nmax_retries = 3\ndead_letter_queue = \""
DlqClose == "-dlq\""
ProducersOpen == "[[queues.producers]]\nqueue = \""
BindingOpen == "-queue\"\nbinding = \""
QueueSuffix == "_QUEUE"
Quote == "\""
Blank == "\n\n"

\* The [[queues.consumers]] entry and the [[queues.producers]] binding of a
\* sanitized name.
ConsumerEntry(n) == <<ConsumersOpen>> \o n \o <<ConsumerSettings>> \o n \o <<DlqClose>>
ProducerEntry(n) ==
  <<ProducersOpen>> \o n \o <<BindingOpen>> \o UpperCased(n) \o <<QueueSuffix, Quote>>
queueBinding(n) == ConsumerEntry(n) \o <<Blank>> \o ProducerEntry(n)

\* The text whose presence makes the tool leave wrangler.toml alone.
Needle(n) == UpperCased(n) \o <<QueueSuffix>>

\* addQueueConsumer: the update of wrangler.toml.
AddQueueConsumer(name) ==
  /\ toml.runs < MaxRuns
  /\ LET sanitizedName == sanitized(name) IN
     toml' = [content |-> IF ~Includes(toml.content, Needle(sanitizedName))
                            THEN toml.content \o <<Blank>> \o queueBinding(sanitizedName)
                            ELSE toml.content,
              name |-> sanitizedName,
              previous |-> toml.name,
              runs |-> toml.runs + 1]
  /\ UNCHANGED <<worker, batch, i, pc, callee, now, last, history, other, api, loop>>

InitToml == toml = NoToml /\ api = NoApi /\ loop = NoLoop /\ NoBatch

TomlNext == \E name \in Names : AddQueueConsumer(name)

TomlSpec == InitToml /\ [][TomlNext]_vars

\* The scheduling of the platform: a pending handler completes, the loop goes
\* on, and an unacknowledged message is delivered again.
LiveSpec == Init /\ [][Next]_vars /\ WF_vars(Next)

\* --------------------------------------------------------------- claims
\* ack() and retry() calls made on message k in this invocation.
Calls(k) == batch[k].acks + batch[k].retries

\* The loop is through with message k.
Handled(k) == k < i \/ pc = "done"

\* The own keys of the registry of worker w (the queue-consumer has none).
Registry(w) ==
  IF w = "todo" THEN todoProcessors
  ELSE IF w = "dispatch" THEN messageProcessors
  ELSE {}

\* The loop has decided on a message whose processor raised.
Raised == last.idx # 0 /\ last.raised # NoError

\* retry_count after the engine's increment, from the value on entry.
AttemptNumber == OrZero(last.rcIn) + 1

FailureIsolation ==
  pc \in {"done", "crashed"} =>
    \A k \in DOMAIN batch : k # last.idx => Calls(k) = 1

\* C3: no failure of a processor propagates out of queue(batch): the
\* invocation never ends by raising.
QueueNeverRaises == pc # "crashed"

\* C4: a message whose type has no registered processor is acknowledged, never
\* retried, and nothing is invoked for it.
UnregisteredTypeAcked ==
  \A k \in DOMAIN batch :
    (worker \in {"todo", "dispatch"} /\ batch[k].body.type \notin Registry(worker)) =>
      /\ batch[k].invoked = 0
      /\ batch[k].retries = 0
      /\ Handled(k) => batch[k].acks = 1

\* C5: a failure classified retryable on an attempt whose number (retry_count
\* after the increment) is 5 or more ends in ack(), in every worker.
ExhaustedBudgetAcked ==
  (Raised /\ Classify(worker, last.raised) = "retryable" /\ AttemptNumber >= 5) =>
    batch[last.idx].acks = 1 /\ batch[last.idx].retries = 0

ValidationErrorAcked ==
  (Raised /\ last.raised = ValidationError) =>
    batch[last.idx].acks = 1 /\ batch[last.idx].retries = 0

\* A ValidationError on a first attempt was acknowledged.
ValidationErrorAckedWitness ==
  /\ Raised
  /\ last.raised = ValidationError
  /\ last.rcIn = Undefined
  /\ batch[last.idx].acks = 1

\* C8: a message whose processor raises the module's flagged error with
\* retryable = false is acknowledged and not retried, for every retry_count.
NonRetryableAcked ==
  (Raised /\ last.raised = FlagError(worker, FALSE)) =>
    batch[last.idx].acks = 1 /\ batch[last.idx].retries = 0

\* A non-retryable error on a first attempt was acknowledged.
NonRetryableAckedWitness ==
  /\ Raised
  /\ last.raised = FlagError(worker, FALSE)
  /\ OrZero(last.rcIn) = 0
  /\ batch[last.idx].acks = 1

\* C9: a raised value that is neither a ValidationError instance nor a
\* non-retryable instance of the flagged class gets the decision that the
\* flagged error with retryable = true gets on the same body.
UnclassifiedTreatedRetryable ==
  (/\ Raised
   /\ ~InstanceOf(last.raised, "ValidationError")
   /\ ~(InstanceOf(last.raised, FlagClass(worker)) /\ ~last.raised.retryable)) =>
    LET d == Catch(worker, batch[last.idx].body, FlagError(worker, TRUE)) IN
    /\ batch[last.idx].acks = (IF d = "ack" THEN 1 ELSE 0)
    /\ batch[last.idx].retries = (IF d = "retry" THEN 1 ELSE 0)

\* Every message handled so far had its processor fail with a failure
\* classified retryable.
FailsRetryably ==
  (pc # "await" /\ last.idx # 0) =>
    (last.raised # NoError /\ Classify(worker, last.raised) = "retryable")

\* Every message delivered so far has been acknowledged.
AllAcknowledged == pc = "done" /\ \A k \in DOMAIN batch : batch[k].acks = 1

\* C10: under redelivery with the body carried forward, messages whose
\* processor fails retryably on every attempt are eventually acknowledged.
EventuallyAcknowledged == []FailsRetryably => <>AllAcknowledged

\* The invocation has ended, by returning or by raising.
Ended == pc \in {"done", "crashed"}

\* Message k has been through the normalization of the loop body, in this
\* delivery or an earlier one.
Normalized(k) == batch[k].attempts >= 1 \/ Handled(k) \/ (k = i /\ pc = "await")

\* A message first delivered without retry_count whose every delivery so far
\* ended in a failure classified retryable.
AlwaysFailing(m) == m.first = Undefined /\ m.steady

\* C11: a message first delivered without retry_count whose processor fails
\* retryably every time is given at most ceiling + 1 = 6 processor calls over
\* all its deliveries.
AttemptsBounded ==
  \A k \in DOMAIN batch : AlwaysFailing(batch[k]) => batch[k].attempts <= 5 + 1

\* C12 as stated: when such a message is acknowledged, retry() has been called
\* on it exactly ceiling = 5 times and the acknowledging attempt is the sixth.
RetriedCeilingTimes ==
  \A k \in DOMAIN batch :
    (AlwaysFailing(batch[k]) /\ batch[k].acks = 1) =>
      batch[k].retried = 5 /\ batch[k].attempts = 5 + 1

\* C12 as amended: in the todo-processor and the queue-consumer such a message
\* is retried on each of its attempts 1 to 4 and acknowledged on its fifth:
\* retry() is called exactly 4 times.
RetriedBelowCeiling ==
  \A k \in DOMAIN batch :
    (worker \in {"todo", "consumer"} /\ AlwaysFailing(batch[k]) /\ Handled(k)) =>
      IF batch[k].attempts < 5
      THEN batch[k].retries = 1 /\ batch[k].acks = 0 /\ batch[k].retried = batch[k].attempts
      ELSE batch[k].attempts = 5 /\ batch[k].acks = 1 /\ batch[k].retried = 5 - 1

\* The fifth attempt of such a message ended in ack() after four retries.
RetriedBelowCeilingWitness ==
  /\ worker = "todo"
  /\ pc = "done"
  /\ AlwaysFailing(batch[1])
  /\ batch[1].acks = 1
  /\ batch[1].attempts = 5
  /\ batch[1].retried = 5 - 1

\* C13: the loop body leaves on the message body the retry_count it came in
\* with plus one (absent counting as 0).
RetryCountIncremented ==
  last.idx # 0 => batch[last.idx].body.retry_count = OrZero(last.rcIn) + 1

\* C14: a message for which a processor has been called carries an id, a
\* timestamp and a retry_count that is the incoming one plus one.
NormalizedBeforeHandler ==
  \A k \in DOMAIN batch :
    batch[k].invoked >= 1 =>
      /\ batch[k].body.id # NoId
      /\ batch[k].body.timestamp # Undefined
      /\ batch[k].body.retry_count >= 1
      /\ k = last.idx => batch[k].body.retry_count = OrZero(last.rcIn) + 1

\* C15: once a message has been through the normalization, no later step
\* (a later delivery, a later clock value) changes its id or its timestamp.
StampsStable ==
  [][\A k \in DOMAIN batch : \A j \in DOMAIN batch' :
       (batch[k].id = batch'[j].id /\ Normalized(k)) =>
         /\ batch'[j].body.id = batch[k].body.id
         /\ batch'[j].body.timestamp = batch[k].body.timestamp]_vars

\* A second processor call is pending on a message the todo-processor stamped
\* at an earlier clock value.
StampsStableWitness ==
  /\ worker = "todo"
  /\ pc = "await"
  /\ batch[1].attempts >= 2
  /\ batch[1].body.id.kind = "todo"
  /\ batch[1].body.id.t < now
  /\ batch[1].body.timestamp < now

\* C16: the normalization keeps every id and timestamp the message came in
\* with, the empty-string id and the timestamp 0 included.
GivenValuesKept ==
  \A k \in DOMAIN batch :
    /\ batch[k].incoming.id # NoId => batch[k].body.id = batch[k].incoming.id
    /\ batch[k].incoming.timestamp # Undefined =>
         batch[k].body.timestamp = batch[k].incoming.timestamp

\* C17: a message whose processor returned is acknowledged, and if it came in
\* without retry_count it carries retry_count 1.
SuccessAcked ==
  (/\ last.idx # 0
   /\ Handled(last.idx)
   /\ batch[last.idx].invoked = 1
   /\ last.raised = NoError) =>
    /\ batch[last.idx].acks = 1
    /\ batch[last.idx].retries = 0
    /\ last.rcIn = Undefined => batch[last.idx].body.retry_count = 1

\* C18: an invocation in which every processor call completes returns, with
\* every message of the batch decided.
InvocationReturns ==
  (pc = "loop") ~> (pc = "done" /\ \A k \in DOMAIN batch : Calls(k) = 1)

\* C19: the messages are processed one after the other in batch order: a
\* processor is called for a message only when every message before it has
\* had its ack() or retry(), and while a call is pending no later message has
\* been touched.
Sequential ==
  /\ \A k \in DOMAIN batch :
       batch[k].invoked >= 1 => \A j \in 1..(k - 1) : Calls(j) = 1
  /\ pc = "await" =>
       /\ Calls(i) = 0
       /\ \A k \in DOMAIN batch : k > i => batch[k].invoked = 0 /\ Calls(k) = 0

\* The processor of the second message is pending and the first is decided.
SequentialWitness ==
  /\ pc = "await"
  /\ i = 2
  /\ batch[1].invoked = 1
  /\ Calls(1) = 1

\* What the engine leaves of message m when its processor ends with e (NoError:
\* it returns) and nothing else is in the batch: the calls made and the
\* retry_count.
Alone(w, m, e) ==
  LET body == Normalize(w, [id |-> m.id, body |-> m.incoming], 1)
      processor == Resolve(w, body.type)
      d == CASE processor = "undefined" -> "ack"
             [] processor = "inherited_throws" -> Catch(w, body, TypeError)
             [] processor = "inherited_returns" -> "ack"
             [] OTHER -> IF e = NoError THEN "ack" ELSE Catch(w, body, e)
  IN  [acks |-> IF d = "ack" THEN 1 ELSE 0,
       retries |-> IF d = "retry" THEN 1 ELSE 0,
       invoked |-> IF processor = "undefined" THEN 0 ELSE 1,
       retry_count |-> body.retry_count]

\* What the engine left of message k in this invocation.
Left(k) ==
  [acks |-> batch[k].acks, retries |-> batch[k].retries,
   invoked |-> batch[k].invoked, retry_count |-> batch[k].body.retry_count]

\* C20: when the invocation has ended, every message of the batch is left as
\* it would be left alone in a batch, for an outcome of its own processor (for
\* the message handled last: the outcome its processor had), whatever its
\* position and the other messages.
Independent ==
  Ended =>
    \A k \in DOMAIN batch :
      \E e \in Raisable(worker) \cup {NoError} :
        /\ Left(k) = Alone(worker, batch[k], e)
        /\ (k = last.idx /\ Resolve(worker, batch[k].body.type) = "processor") =>
             e = last.raised

\* Message m is as it was delivered: no step of the loop reached it.
Untouched(m) ==
  m.acks = 0 /\ m.retries = 0 /\ m.invoked = 0 /\ m.body = m.incoming

RECURSIVE SerialRun(_, _, _, _)
\* The messages of msgs from position k on are left as queue(batch) of worker
\* w, run on the delivered batch with nothing else going on, leaves them for
\* some outcome of each processor call (for the message handled last, l, the
\* outcome its call had) and some clock value at each normalization.
SerialRun(w, msgs, l, k) ==
  IF k > Len(msgs) THEN TRUE
  ELSE
    \E e \in Raisable(w) \cup {NoError} : \E t \in 1..MaxClock :
      LET body == Normalize(w, [id |-> msgs[k].id, body |-> msgs[k].incoming], t)
          processor == Resolve(w, body.type)
          d == CASE processor = "undefined" -> "ack"
                 [] processor = "inherited_throws" -> Catch(w, body, TypeError)
                 [] processor = "inherited_returns" -> "ack"
                 [] OTHER -> IF e = NoError THEN "ack" ELSE Catch(w, body, e)
      IN
      /\ (k = l.idx /\ processor = "processor") => e = l.raised
      /\ msgs[k].body = body
      /\ msgs[k].acks = (IF d = "ack" THEN 1 ELSE 0)
      /\ msgs[k].retries = (IF d = "retry" THEN 1 ELSE 0)
      /\ msgs[k].invoked = (IF processor = "undefined" THEN 0 ELSE 1)
      /\ IF d = "throw"
         THEN \A j \in (k + 1)..Len(msgs) : Untouched(msgs[j])
         ELSE SerialRun(w, msgs, l, k + 1)

\* C21: when an invocation has ended, however its steps were interleaved with
\* those of a second invocation on a disjoint batch, every message of its
\* batch carries the ack()/retry() calls and the body (id, timestamp,
\* retry_count, up to the clock values read) that the invocation run alone
\* leaves; the messages of the other batch are not touched by it.
Serializable ==
  /\ Ended => SerialRun(worker, batch, last, 1)
  /\ other.pc \in {"done", "crashed"} => SerialRun(worker, other.batch, other.last, 1)
  /\ (other.pc = "loop" /\ other.last = NoLast) =>
       \A k \in DOMAIN other.batch : Untouched(other.batch[k])

\* Both invocations have ended after each was suspended at an await while the
\* other ran: one retried a message, the other acknowledged one.
SerializableWitness ==
  /\ Ended
  /\ other.pc = "done"
  /\ Len(batch) + Len(other.batch) = 3
  /\ \A k \in DOMAIN batch : batch[k].invoked = 1
  /\ \E k \in DOMAIN batch : batch[k].retries = 1
  /\ other.batch[Len(other.batch)].invoked = 1
  /\ other.batch[Len(other.batch)].acks = 1

\* C22: every step of the engine leaves the body as it was delivered but for
\* id, timestamp and retry_count: type, data and the set of fields are kept.
OnlyMetadataWritten ==
  \A k \in DOMAIN batch :
    [batch[k].body EXCEPT !.id = batch[k].incoming.id,
                          !.timestamp = batch[k].incoming.timestamp,
                          !.retry_count = batch[k].incoming.retry_count]
      = batch[k].incoming

\* A redelivered message the engine has stamped and counted twice goes to its
\* processor with the data it was produced with.
OnlyMetadataWrittenWitness ==
  /\ worker \in {"todo", "consumer"}
  /\ pc = "await"
  /\ batch[1].body.id.kind \in {"todo", "msg"}
  /\ batch[1].body.retry_count >= 2
  /\ batch[1].attempts >= 2
  /\ batch[1].body.data = TaskData(GivenTitle)

\* A task body with a required field missing: no data, or no or an empty
\* title.
MissingField(body) ==
  body.type = "task" /\ (body.data.kind = "undefined" \/ FalsyTitle(body.data.title))

\* C23: in the todo-processor a task message with a missing required field,
\* first delivered without retry_count, is never retried, and once handled it
\* is acknowledged after a ValidationError of processTask with retry_count 1.
MissingFieldAcked ==
  \A k \in DOMAIN batch :
    (worker = "todo" /\ MissingField(batch[k].incoming) /\ batch[k].first = Undefined) =>
      /\ batch[k].retried = 0
      /\ Handled(k) =>
           /\ batch[k].acks = 1
           /\ batch[k].body.retry_count = 1
           /\ last.raised = ValidationError

\* C24: for every message the engine has decided on, whatever its path, one
\* of the lines written for it carries the message id, the elapsed time and
\* the final action.
OutcomeRecorded ==
  \A k \in DOMAIN batch :
    Calls(k) >= 1 =>
      \E line \in batch[k].logged : {"id", "elapsed", "action"} \subseteq Carries(line)

\* C25: the retry() calls on one message are not all requests for immediate
\* redelivery: from the second call on, the delays requested do not decrease
\* and one of them is a positive delay.
Backoff ==
  \A k \in DOMAIN batch :
    LET delays == batch[k].delays IN
    Len(delays) >= 2 =>
      /\ \A j \in 1..(Len(delays) - 1) : delays[j] <= delays[j + 1]
      /\ \E j \in DOMAIN delays : delays[j] > 0

\* The endpoints that send to the queue or publish to Redis.
ProtectedPaths == {"/api/todo/counter", "/api/todo/task", "/api/todo/reminder", "/publish"}

\* C26: a POST to a protected endpoint whose X-Auth-Key header is missing or
\* differs from AUTH_KEY is answered 401, sends nothing to the queue and
\* publishes nothing; GET /health and GET /docs are answered 200 whatever the
\* header.
ProtectedNeedKey ==
  LET request == api.request IN
  /\ (/\ request.method = "POST"
      /\ request.path \in ProtectedPaths
      /\ (request.key = NoString \/ request.key # api.env.AUTH_KEY)) =>
       api.status = 401 /\ api.sent = <<>> /\ api.published = 0
  /\ (request.method = "GET" /\ request.path \in {"/health", "/docs"}) =>
       api.status = 200

\* A well-formed task request with a key that is not AUTH_KEY was answered
\* 401.
ProtectedNeedKeyWitness ==
  /\ api.request.method = "POST"
  /\ api.request.path = "/api/todo/task"
  /\ api.request.payload = TaskPayload(GivenTitle)
  /\ api.request.key = String(<<2>>)
  /\ api.env.AUTH_KEY = String(<<1>>)
  /\ api.status = 401

\* C27: after `add queue-consumer --name N` wrangler.toml holds the
\* [[queues.consumers]] entry and the [[queues.producers]] binding of N's
\* queue, whatever it held before.
ConsumerConfigured ==
  toml.runs > 0 =>
    /\ Includes(toml.content, ConsumerEntry(toml.name))
    /\ Includes(toml.content, ProducerEntry(toml.name))

\* How far message k is in this invocation: received, dispatched to its
\* handler, decided by ack() or retry().
StageOf(msgs, k) ==
  IF msgs[k].acks + msgs[k].retries >= 1 THEN 2
  ELSE IF msgs[k].invoked >= 1 THEN 1
  ELSE 0

\* The step is a redelivery: a new invocation starts after one has ended.
Redelivery == pc \in {"done", "crashed"} /\ pc' = "loop"

\* C28: within an invocation a message only moves forward (received,
\* dispatched, decided), its handler is invoked at most once and nothing is
\* done to it after its ack() or retry(); a redelivery after retry() starts at
\* received with the retry_count of the previous attempt, i.e. the count that
\* attempt came in with plus one.
ForwardOnly ==
  [][ /\ \A k \in DOMAIN batch' : batch'[k].invoked <= 1
      /\ ~Redelivery =>
           \A k \in DOMAIN batch :
             /\ StageOf(batch', k) >= StageOf(batch, k)
             /\ Calls(k) >= 1 => batch'[k] = batch[k]
      /\ Redelivery =>
           \A n \in DOMAIN batch' :
             /\ StageOf(batch', n) = 0
             /\ \A k \in DOMAIN batch :
                  (batch[k].id = batch'[n].id /\ batch[k].retries = 1) =>
                    batch'[n].body.retry_count = OrZero(batch[k].incoming.retry_count) + 1
    ]_vars

\* C29: a message whose type is a property name the registry object inherits
\* resolves to no handler: nothing is invoked for it, it is never retried and
\* the loop acknowledges it.
InheritedNamesUnresolved ==
  \A k \in DOMAIN batch :
    (/\ worker \in {"todo", "dispatch"}
     /\ batch[k].body.type \in InheritedReturning \cup InheritedThrowing) =>
      /\ batch[k].invoked = 0
      /\ batch[k].retries = 0
      /\ Handled(k) => batch[k].acks = 1

\* C30: every message the main worker sends to the todo queue has a handler
\* in todoProcessors: none is decided without its handler having been
\* invoked, none is logged as an unknown type.
ProducedTypesHandled ==
  \A k \in DOMAIN batch :
    /\ "unknown" \notin batch[k].logged
    /\ Calls(k) >= 1 => batch[k].invoked >= 1

\* C31: processCounter terminates for every counter message that passes its
\* validation, whatever the step: queue(batch) returns.
CounterTerminates ==
  (processCounter(batch[1].body) = NoError) => <>(pc = "done")

\* C32: for a counter message with step >= 1 that passes the validation the
\* body of the loop is executed at most 10000 times.
AtMostMaxRangeIterations ==
  (loop.of # 0 /\ StepOf(batch[loop.of].body) >= 1) => loop.n <= MaxRange

\* The outcome e of a handler as the handler of worker w has it: the flagged
\* error is of the class that w declares.
OutcomeIn(w, e) ==
  IF e.cls \in {"ProcessingError", "ServiceError"} THEN FlagError(w, e.retryable) ELSE e

\* What worker w decides on message m as it was delivered when its handler
\* ends with e, and the retry_count it leaves on the body.
PolicyOf(w, m, e) ==
  LET body == Normalize(w, [id |-> m.id, body |-> m.incoming], 1) IN
  [decision |-> IF e = NoError THEN "ack" ELSE Catch(w, body, OutcomeIn(w, e)),
   retry_count |-> body.retry_count]

\* What the running worker decided on message k and left on its body.
PolicyTaken(k) ==
  [decision |-> IF batch[k].acks = 1 THEN "ack"
                ELSE IF batch[k].retries = 1 THEN "retry"
                ELSE "throw",
   retry_count |-> batch[k].body.retry_count]

\* C33: the three workers implement the same retry policy: when the
\* invocation has ended, what the worker decided on a message whose handler
\* ran, and the retry_count it left, is what each of the three workers
\* decides and leaves for the same delivered message and handler outcome.
SameRetryPolicy ==
  (/\ pc \in {"done", "crashed"}
   /\ last.idx = 1
   /\ Resolve(worker, batch[1].body.type) = "processor") =>
    \A w \in Workers : PolicyOf(w, batch[1], last.raised) = PolicyTaken(1)

\* C34: retry() is only called after a handler failure: a message whose
\* handler completed successfully (the success line is logged) is not retried
\* in that invocation and has at most one ack() call, also when its ack()
\* raises.
RetryOnlyAfterFailure ==
  \A k \in DOMAIN batch :
    "success" \in batch[k].logged => batch[k].retries = 0 /\ batch[k].acks <= 1

\* C35: the ids the engine assigns are unique: two distinct messages of a
\* batch that arrived without a body id and have been given one have
\* different body ids.
AssignedIdsUnique ==
  \A k, j \in DOMAIN batch :
    (/\ k # j
     /\ batch[k].id # batch[j].id
     /\ FalsyId(batch[k].incoming.id) /\ ~FalsyId(batch[k].body.id)
     /\ FalsyId(batch[j].incoming.id) /\ ~FalsyId(batch[j].body.id)) =>
      batch[k].body.id # batch[j].body.id

\* The command was run twice in a row for the same name, and the entries of
\* the name are in wrangler.toml.
AddedOnceWitness ==
  /\ toml.runs = 2
  /\ toml.previous = toml.name
  /\ Includes(toml.content, queueBinding(toml.name))

\* C36: `add queue-consumer --name N` run again for the same name leaves
\* wrangler.toml as the first run left it.
AddedOnce ==
  [][(toml.runs >= 1 /\ toml'.runs = toml.runs + 1 /\ toml'.name = toml.name) =>
       toml'.content = toml.content]_vars

====
